---------------------------- MODULE Spec2Model ----------------------------
(***************************************************************************)
(* A model of vulkano/src/image/sys.rs: the Usage descriptor and its      *)
(* bitmask conversions, the dimension / mipmap resolution performed by    *)
(* UnsafeImage::new, the device protocol of UnsafeImage::new              *)
(* (CreateImage, GetImageMemoryRequirements, allocation callback,         *)
(* BindImageMemory), from_raw_unowned, and Drop for UnsafeImage.          *)
(*                                                                         *)
(* Encodings.  A vk::ImageUsageFlagBits word (u32) is the set of its set  *)
(* bit positions, a subset of 0..31, so `|` is \cup and `&` is \cap.      *)
(* Extents and counts (u32) are naturals.                                  *)
(***************************************************************************)
EXTENDS Integers, Sequences, FiniteSets, TLC

(***************************************************************************)
(* Bounds of the model.                                                    *)
(***************************************************************************)
MaxExtent == 3
MaxLayers == 2
MaxSamples == 2
MaxSpecific == 3
MaxLowBits == 9
NumThreads == 2
MaxCalls == 2

(***************************************************************************)
(* u32 words.                                                              *)
(***************************************************************************)
U32Bits == 32

\* The word whose value is the natural n (n < 2^31), as its set of set bits.
RECURSIVE WordFrom(_, _)
WordFrom(n, i) ==
    IF n = 0 THEN {}
    ELSE (IF n % 2 = 1 THEN {i} ELSE {}) \cup WordFrom(n \div 2, i + 1)

Word(n) == WordFrom(n, 0)

\* u32::leading_zeros: the number of zero bits above the highest set bit.
RECURSIVE BitLength(_)
BitLength(x) == IF x = 0 THEN 0 ELSE 1 + BitLength(x \div 2)

leading_zeros(x) == U32Bits - BitLength(x)

(***************************************************************************)
(* vk::IMAGE_USAGE_*_BIT (the vk bindings of this repository).             *)
(***************************************************************************)
IMAGE_USAGE_TRANSFER_SRC_BIT == 1
IMAGE_USAGE_TRANSFER_DST_BIT == 2
IMAGE_USAGE_SAMPLED_BIT == 4
IMAGE_USAGE_STORAGE_BIT == 8
IMAGE_USAGE_COLOR_ATTACHMENT_BIT == 16
IMAGE_USAGE_DEPTH_STENCIL_ATTACHMENT_BIT == 32
IMAGE_USAGE_TRANSIENT_ATTACHMENT_BIT == 64
IMAGE_USAGE_INPUT_ATTACHMENT_BIT == 128

(***************************************************************************)
(* struct Usage and its conversions.                                       *)
(***************************************************************************)
Usage ==
    [transfer_source : BOOLEAN, transfer_dest : BOOLEAN, sampled : BOOLEAN,
     storage : BOOLEAN, color_attachment : BOOLEAN,
     depth_stencil_attachment : BOOLEAN, transient_attachment : BOOLEAN,
     input_attachment : BOOLEAN]

UsageAll ==
    [transfer_source |-> TRUE, transfer_dest |-> TRUE, sampled |-> TRUE,
     storage |-> TRUE, color_attachment |-> TRUE,
     depth_stencil_attachment |-> TRUE, transient_attachment |-> TRUE,
     input_attachment |-> TRUE]

UsageNone ==
    [transfer_source |-> FALSE, transfer_dest |-> FALSE, sampled |-> FALSE,
     storage |-> FALSE, color_attachment |-> FALSE,
     depth_stencil_attachment |-> FALSE, transient_attachment |-> FALSE,
     input_attachment |-> FALSE]

\* A to_usage_bits that ORs the sampled flag into the transfer-dst bit.
to_usage_bits_SharedBit(self) ==
    LET r1 == IF self.transfer_source
              THEN Word(IMAGE_USAGE_TRANSFER_SRC_BIT) ELSE {}
        r2 == IF self.transfer_dest
              THEN r1 \cup Word(IMAGE_USAGE_TRANSFER_DST_BIT) ELSE r1
        r3 == IF self.sampled
              THEN r2 \cup Word(IMAGE_USAGE_TRANSFER_DST_BIT) ELSE r2
        r4 == IF self.storage
              THEN r3 \cup Word(IMAGE_USAGE_STORAGE_BIT) ELSE r3
        r5 == IF self.color_attachment
              THEN r4 \cup Word(IMAGE_USAGE_COLOR_ATTACHMENT_BIT) ELSE r4
        r6 == IF self.depth_stencil_attachment
              THEN r5 \cup Word(IMAGE_USAGE_DEPTH_STENCIL_ATTACHMENT_BIT) ELSE r5
        r7 == IF self.transient_attachment
              THEN r6 \cup Word(IMAGE_USAGE_TRANSIENT_ATTACHMENT_BIT) ELSE r6
        r8 == IF self.input_attachment
              THEN r7 \cup Word(IMAGE_USAGE_INPUT_ATTACHMENT_BIT) ELSE r7
    IN  r8

to_usage_bits(self) ==
    LET r0 == {}
        r1 == IF self.transfer_source
              THEN r0 \cup Word(IMAGE_USAGE_TRANSFER_SRC_BIT) ELSE r0
        r2 == IF self.transfer_dest
              THEN r1 \cup Word(IMAGE_USAGE_TRANSFER_DST_BIT) ELSE r1
        r3 == IF self.sampled
              THEN r2 \cup Word(IMAGE_USAGE_SAMPLED_BIT) ELSE r2
        r4 == IF self.storage
              THEN r3 \cup Word(IMAGE_USAGE_STORAGE_BIT) ELSE r3
        r5 == IF self.color_attachment
              THEN r4 \cup Word(IMAGE_USAGE_COLOR_ATTACHMENT_BIT) ELSE r4
        r6 == IF self.depth_stencil_attachment
              THEN r5 \cup Word(IMAGE_USAGE_DEPTH_STENCIL_ATTACHMENT_BIT) ELSE r5
        r7 == IF self.transient_attachment
              THEN r6 \cup Word(IMAGE_USAGE_TRANSIENT_ATTACHMENT_BIT) ELSE r6
        r8 == IF self.input_attachment
              THEN r7 \cup Word(IMAGE_USAGE_INPUT_ATTACHMENT_BIT) ELSE r7
    IN  r8

\* A from_bits that tests the whole word, not the masked bit, for one flag.
from_bits_Unmasked(val) ==
    [transfer_source |-> (val \cap Word(IMAGE_USAGE_TRANSFER_SRC_BIT)) # {},
     transfer_dest |-> (val \cap Word(IMAGE_USAGE_TRANSFER_DST_BIT)) # {},
     sampled |-> (val \cap Word(IMAGE_USAGE_SAMPLED_BIT)) # {},
     storage |-> (val \cap Word(IMAGE_USAGE_STORAGE_BIT)) # {},
     color_attachment |-> (val \cap Word(IMAGE_USAGE_COLOR_ATTACHMENT_BIT)) # {},
     depth_stencil_attachment |->
         (val \cap Word(IMAGE_USAGE_DEPTH_STENCIL_ATTACHMENT_BIT)) # {},
     transient_attachment |->
         (val \cap Word(IMAGE_USAGE_TRANSIENT_ATTACHMENT_BIT)) # {},
     input_attachment |-> (val \ Word(IMAGE_USAGE_INPUT_ATTACHMENT_BIT - 1)) # {}]

from_bits(val) ==
    [transfer_source |-> (val \cap Word(IMAGE_USAGE_TRANSFER_SRC_BIT)) # {},
     transfer_dest |-> (val \cap Word(IMAGE_USAGE_TRANSFER_DST_BIT)) # {},
     sampled |-> (val \cap Word(IMAGE_USAGE_SAMPLED_BIT)) # {},
     storage |-> (val \cap Word(IMAGE_USAGE_STORAGE_BIT)) # {},
     color_attachment |-> (val \cap Word(IMAGE_USAGE_COLOR_ATTACHMENT_BIT)) # {},
     depth_stencil_attachment |->
         (val \cap Word(IMAGE_USAGE_DEPTH_STENCIL_ATTACHMENT_BIT)) # {},
     transient_attachment |->
         (val \cap Word(IMAGE_USAGE_TRANSIENT_ATTACHMENT_BIT)) # {},
     input_attachment |-> (val \cap Word(IMAGE_USAGE_INPUT_ATTACHMENT_BIT)) # {}]

(***************************************************************************)
(* f32 values.  `x as f32` for a u32 x rounds to the nearest value with a  *)
(* 24-bit significand, ties to even.  An f32 that holds an integer is the  *)
(* pair [m, e] standing for m * 2^e, with m < 2^24 and e = 0 or m >= 2^23. *)
(***************************************************************************)
F32MantissaBits == 24

as_f32(x) ==
    LET len == BitLength(x)
    IN  IF len <= F32MantissaBits THEN [m |-> x, e |-> 0]
        ELSE LET sh == len - F32MantissaBits
                 unit == 2 ^ sh
                 q == x \div unit
                 r == x % unit
                 half == unit \div 2
                 up == r > half \/ (r = half /\ q % 2 = 1)
                 m == IF up THEN q + 1 ELSE q
             IN  IF m = 2 ^ F32MantissaBits
                 THEN [m |-> 2 ^ (F32MantissaBits - 1), e |-> sh + 1]
                 ELSE [m |-> m, e |-> sh]

F32One == [m |-> 1, e |-> 0]

(***************************************************************************)
(* enum Dimensions, enum MipmapsCount.                                     *)
(***************************************************************************)
Dim1d(w) == [kind |-> "Dim1d", width |-> w]
Dim1dArray(w, l) == [kind |-> "Dim1dArray", width |-> w, array_layers |-> l]
Dim2d(w, h) == [kind |-> "Dim2d", width |-> w, height |-> h]
Dim2dArray(w, h, l) ==
    [kind |-> "Dim2dArray", width |-> w, height |-> h, array_layers |-> l]
Dim3d(w, h, d) == [kind |-> "Dim3d", width |-> w, height |-> h, depth |-> d]

Specific(n) == [kind |-> "Specific", num |-> n]
MipMax == [kind |-> "Max"]
MipOne == [kind |-> "One"]

(***************************************************************************)
(* UnsafeImage::new, "Compute the maximum number of mipmaps".              *)
(***************************************************************************)
\* A smallest_dim whose Dim3d arm compares depth with the wrong operand.
smallest_dim_WrongArm(dimensions) ==
    CASE dimensions.kind \in {"Dim1d", "Dim1dArray"} -> dimensions.width
      [] dimensions.kind \in {"Dim2d", "Dim2dArray"} ->
            IF dimensions.width < dimensions.height
            THEN dimensions.width ELSE dimensions.height
      [] dimensions.kind = "Dim3d" ->
            IF dimensions.width < dimensions.height
            THEN (IF dimensions.depth < dimensions.height
                  THEN dimensions.depth ELSE dimensions.width)
            ELSE (IF dimensions.depth < dimensions.height
                  THEN dimensions.depth ELSE dimensions.height)

smallest_dim(dimensions) ==
    CASE dimensions.kind \in {"Dim1d", "Dim1dArray"} -> dimensions.width
      [] dimensions.kind \in {"Dim2d", "Dim2dArray"} ->
            IF dimensions.width < dimensions.height
            THEN dimensions.width ELSE dimensions.height
      [] dimensions.kind = "Dim3d" ->
            IF dimensions.width < dimensions.height
            THEN (IF dimensions.depth < dimensions.width
                  THEN dimensions.depth ELSE dimensions.width)
            ELSE (IF dimensions.depth < dimensions.height
                  THEN dimensions.depth ELSE dimensions.height)

\* The value of the max_mipmaps block once its assertion has passed.
max_mipmaps(dimensions) == U32Bits - leading_zeros(smallest_dim(dimensions))

(***************************************************************************)
(* UnsafeImage::new, the match that derives (ty, extent, array_layers,     *)
(* dims) from the dimensions.                                              *)
(***************************************************************************)
Extent3D(w, h, d) == [width |-> w, height |-> h, depth |-> d]

\* A shape match whose array arms give one layer, as the plain arms do.
ImageShape_OneLayer(dimensions) ==
    LET is1d == dimensions.kind \in {"Dim1d", "Dim1dArray"}
        is3d == dimensions.kind = "Dim3d"
        h == IF is1d THEN 1 ELSE dimensions.height
        d == IF is3d THEN dimensions.depth ELSE 1
    IN  [ty |-> IF is1d THEN "IMAGE_TYPE_1D"
                ELSE IF is3d THEN "IMAGE_TYPE_3D" ELSE "IMAGE_TYPE_2D",
         extent |-> Extent3D(dimensions.width, h, d),
         array_layers |-> 1,
         dims |-> <<as_f32(dimensions.width),
                    IF is1d THEN F32One ELSE as_f32(h),
                    IF is3d THEN as_f32(d) ELSE F32One>>]

ImageShape(dimensions) ==
    CASE dimensions.kind = "Dim1d" ->
            [ty |-> "IMAGE_TYPE_1D",
             extent |-> Extent3D(dimensions.width, 1, 1),
             array_layers |-> 1,
             dims |-> <<as_f32(dimensions.width), F32One, F32One>>]
      [] dimensions.kind = "Dim1dArray" ->
            [ty |-> "IMAGE_TYPE_1D",
             extent |-> Extent3D(dimensions.width, 1, 1),
             array_layers |-> dimensions.array_layers,
             dims |-> <<as_f32(dimensions.width), F32One, F32One>>]
      [] dimensions.kind = "Dim2d" ->
            [ty |-> "IMAGE_TYPE_2D",
             extent |-> Extent3D(dimensions.width, dimensions.height, 1),
             array_layers |-> 1,
             dims |-> <<as_f32(dimensions.width), as_f32(dimensions.height),
                        F32One>>]
      [] dimensions.kind = "Dim2dArray" ->
            [ty |-> "IMAGE_TYPE_2D",
             extent |-> Extent3D(dimensions.width, dimensions.height, 1),
             array_layers |-> dimensions.array_layers,
             dims |-> <<as_f32(dimensions.width), as_f32(dimensions.height),
                        F32One>>]
      [] dimensions.kind = "Dim3d" ->
            [ty |-> "IMAGE_TYPE_3D",
             extent |-> Extent3D(dimensions.width, dimensions.height,
                                 dimensions.depth),
             array_layers |-> 1,
             dims |-> <<as_f32(dimensions.width), as_f32(dimensions.height),
                        as_f32(dimensions.depth)>>]

(***************************************************************************)
(* UnsafeImage::new, "Preprocessing parameters" up to the shape match:     *)
(* everything the call does before it touches the device.                  *)
(***************************************************************************)
\* A samples check that lets every sample count through.
SamplesOk_Always(num_samples) == TRUE

\* assert!(num_samples >= 1)
SamplesOk(num_samples) == num_samples >= 1

\* assert!(smallest_dim >= 1)
SmallestDimOk(dimensions) == smallest_dim(dimensions) >= 1

\* The two assertions of the MipmapsCount::Specific arm.
SpecificOk(num, max) == num >= 1 /\ num <= max

\* A match whose One arm yields the maximum.
ResolveMipmaps_OneIsMax(mipmaps, max) ==
    CASE mipmaps.kind = "Specific" -> mipmaps.num
      [] mipmaps.kind = "Max" -> max
      [] mipmaps.kind = "One" -> max

\* The match on mipmaps.into(), once its assertions have passed.
ResolveMipmaps(mipmaps, max) ==
    CASE mipmaps.kind = "Specific" -> mipmaps.num
      [] mipmaps.kind = "Max" -> max
      [] mipmaps.kind = "One" -> 1

NoShape ==
    [ty |-> "none", extent |-> Extent3D(0, 0, 0), array_layers |-> 0,
     dims |-> <<>>]

\* The outcome of the code that precedes the device calls: panicked, or the
\* values it resolved.
Preprocess(args) ==
    LET usage == to_usage_bits(args.usage)
        stop(max) == [panicked |-> TRUE, usage |-> usage, max_mipmaps |-> max,
                      mipmaps |-> 0, shape |-> NoShape]
    IN  IF ~SamplesOk(args.num_samples) THEN stop(0)
        ELSE IF ~SmallestDimOk(args.dimensions) THEN stop(0)
        ELSE LET max == max_mipmaps(args.dimensions)
             IN  IF args.mipmaps.kind = "Specific"
                    /\ ~SpecificOk(args.mipmaps.num, max)
                 THEN stop(max)
                 ELSE [panicked |-> FALSE, usage |-> usage,
                       max_mipmaps |-> max,
                       mipmaps |-> ResolveMipmaps(args.mipmaps, max),
                       shape |-> ImageShape(args.dimensions)]

\* vk::ImageCreateInfo as filled in by the call.
ImageCreateInfo(args, pre) ==
    [imageType |-> pre.shape.ty,
     format |-> args.format,
     extent |-> pre.shape.extent,
     mipLevels |-> pre.mipmaps,
     arrayLayers |-> pre.shape.array_layers,
     samples |-> args.num_samples,
     tiling |-> IF args.linear_tiling
                THEN "IMAGE_TILING_LINEAR" ELSE "IMAGE_TILING_OPTIMAL",
     usage |-> pre.usage,
     sharingMode |-> IF args.sharing.kind = "Exclusive"
                     THEN "SHARING_MODE_EXCLUSIVE"
                     ELSE "SHARING_MODE_CONCURRENT",
     queueFamilyIndexCount |-> IF args.sharing.kind = "Exclusive"
                               THEN 0 ELSE Len(args.sharing.ids),
     initialLayout |-> IF args.preinitialized_layout
                       THEN "IMAGE_LAYOUT_PREINITIALIZED"
                       ELSE "IMAGE_LAYOUT_UNDEFINED"]

(***************************************************************************)
(* The device and the allocation callback, as seen from this file.         *)
(***************************************************************************)
VkResults ==
    {"SUCCESS", "ERROR_OUT_OF_HOST_MEMORY", "ERROR_OUT_OF_DEVICE_MEMORY"}

\* check_errors: Ok for a success code, Err for an error code.
check_errors(r) == IF r = "SUCCESS" THEN "Ok" ELSE "Err"

\* What GetImageMemoryRequirements may write to its output.
MemoryRequirements ==
    { [size |-> 16, alignment |-> 4, memoryTypeBits |-> Word(3)],
      [size |-> 64, alignment |-> 16, memoryTypeBits |-> Word(4)] }

\* What the allocation callback may do: return a Regular chunk, return a
\* chunk of another kind, or panic.
ChunkOutcomes ==
    { [kind |-> "Regular", memory |-> mem, offset |-> off] :
          mem \in {"memA"}, off \in {0, 32} }
    \cup {[kind |-> "Other"], [kind |-> "CallbackPanic"]}

(***************************************************************************)
(* State.                                                                  *)
(***************************************************************************)
VARIABLES
    pc,         \* per thread: where its current call stands
    frame,      \* per thread: the locals of its current call
    result,     \* per thread: how its last finished call ended
    trace,      \* per thread: device / callback calls made by its current call
    objects,    \* the UnsafeImage values ever returned, in order of creation
    device,     \* the device: handles created, DestroyImage calls per handle
    ncalls,     \* constructor calls started so far
    conv,       \* a Usage conversion in progress
    arcs        \* the threads that hold an Arc<Device> of their own

vars == <<pc, frame, result, trace, objects, device, ncalls, conv, arcs>>

imgVars == <<pc, frame, result, trace, objects, device, ncalls, arcs>>

Threads == 1 .. NumThreads

NoArgs == [fn |-> "none"]

EmptyFrame ==
    [fn |-> "none", args |-> NoArgs, usage |-> {}, max_mipmaps |-> 0,
     mipmaps |-> 0, shape |-> NoShape, image |-> 0,
     create_result |-> "none",
     mem_reqs |-> [size |-> 0, alignment |-> 0, memoryTypeBits |-> {}],
     chunk |-> [kind |-> "none"], bind_result |-> "none"]

NoResult == [kind |-> "None"]

ConvIdle == [step |-> "idle"]

InitImages ==
    /\ pc = [t \in Threads |-> "idle"]
    /\ frame = [t \in Threads |-> EmptyFrame]
    /\ result = [t \in Threads |-> NoResult]
    /\ trace = [t \in Threads |-> <<>>]
    /\ objects = <<>>
    /\ device = [created |-> {}, alive |-> {}, destroyCalls |-> <<>>,
                 bound |-> {}, destroyedBy |-> {},
                 strong |-> NumThreads, freed |-> FALSE, usedFreed |-> FALSE]
    /\ ncalls = 0
    /\ arcs = Threads

(***************************************************************************)
(* UnsafeImage::new, step by step.  A call that panics or returns leaves   *)
(* its outcome in result[t] and its thread at "done".                      *)
(***************************************************************************)
Panic(fn) == [kind |-> "Panic", fn |-> fn]

Err(fn) == [kind |-> "Err", fn |-> fn, err |-> "OomError"]

Ok(fn, obj) == [kind |-> "Ok", fn |-> fn, object |-> obj]

\* Entry of new: the preprocessing, the assertions and the shape match.
NewBegin(t, args) ==
    /\ pc[t] = "idle"
    /\ t \in arcs
    /\ ncalls < MaxCalls
    /\ LET pre == Preprocess(args)
       IN  /\ frame' = [frame EXCEPT ![t] =
                  [EmptyFrame EXCEPT !.fn = "new", !.args = args,
                                     !.usage = pre.usage,
                                     !.max_mipmaps = pre.max_mipmaps,
                                     !.mipmaps = pre.mipmaps,
                                     !.shape = pre.shape]]
           /\ IF pre.panicked
              THEN /\ pc' = [pc EXCEPT ![t] = "done"]
                   /\ result' = [result EXCEPT ![t] = Panic("new")]
              ELSE /\ pc' = [pc EXCEPT ![t] = "CreateImage"]
                   /\ result' = [result EXCEPT ![t] = NoResult]
    /\ trace' = [trace EXCEPT ![t] = <<>>]
    /\ ncalls' = ncalls + 1
    /\ UNCHANGED <<objects, device, conv, arcs>>

\* A try! that does not return on an error.
AfterCreateImage_NoTry(r) == "GetImageMemoryRequirements"

\* try!(check_errors(vk.CreateImage(..))): where the call goes next.
AfterCreateImage(r) ==
    IF check_errors(r) = "Ok" THEN "GetImageMemoryRequirements" ELSE "return Err"

\* vk.CreateImage: the device answers r; on success it writes a fresh handle.
NewCreateImage(t, r) ==
    /\ pc[t] = "CreateImage"
    /\ LET h == Len(device.destroyCalls) + 1
           infos == ImageCreateInfo(frame[t].args, frame[t])
           next == AfterCreateImage(r)
       IN  /\ trace' = [trace EXCEPT ![t] =
                  Append(@, [call |-> "CreateImage", infos |-> infos,
                             result |-> r,
                             image |-> IF r = "SUCCESS" THEN h ELSE 0])]
           /\ device' = IF r = "SUCCESS"
                        THEN [device EXCEPT !.created = @ \cup {h},
                                            !.alive = @ \cup {h},
                                            !.destroyCalls = Append(@, 0)]
                        ELSE device
           /\ frame' = [frame EXCEPT ![t].create_result = r,
                                     ![t].image = IF r = "SUCCESS" THEN h ELSE 0]
           /\ IF next = "return Err"
              THEN /\ pc' = [pc EXCEPT ![t] = "done"]
                   /\ result' = [result EXCEPT ![t] = Err("new")]
              ELSE /\ pc' = [pc EXCEPT ![t] = next]
                   /\ UNCHANGED result
    /\ UNCHANGED <<objects, ncalls, conv, arcs>>

\* vk.GetImageMemoryRequirements: the device writes reqs.
NewGetImageMemoryRequirements(t, reqs) ==
    /\ pc[t] = "GetImageMemoryRequirements"
    /\ trace' = [trace EXCEPT ![t] =
           Append(@, [call |-> "GetImageMemoryRequirements",
                      image |-> frame[t].image, reqs |-> reqs])]
    /\ frame' = [frame EXCEPT ![t].mem_reqs = reqs]
    /\ pc' = [pc EXCEPT ![t] = "memory"]
    /\ UNCHANGED <<result, objects, device, ncalls, conv, arcs>>

\* A match that takes every chunk kind the callback returns to the bind.
AfterMemory_BindAny(chunk) ==
    IF chunk.kind = "CallbackPanic" THEN "panic" ELSE "BindImageMemory"

\* The match on the callback's return value: where the call goes next.
AfterMemory(chunk) ==
    CASE chunk.kind = "CallbackPanic" -> "panic"
      [] chunk.kind = "Regular" -> "BindImageMemory"
      [] OTHER -> "panic"

\* A callback invocation with size and alignment in each other's place.
MemoryArgs_Swapped(mem_reqs) ==
    [size |-> mem_reqs.alignment, alignment |-> mem_reqs.size,
     memoryTypeBits |-> mem_reqs.memoryTypeBits]

\* The three arguments handed to the callback.
MemoryArgs(mem_reqs) ==
    [size |-> mem_reqs.size, alignment |-> mem_reqs.alignment,
     memoryTypeBits |-> mem_reqs.memoryTypeBits]

\* memory(size, alignment, memoryTypeBits): the callback runs and ends as
\* chunk says.
NewMemory(t, chunk) ==
    /\ pc[t] = "memory"
    /\ trace' = [trace EXCEPT ![t] =
           Append(@, [call |-> "memory",
                      size |-> MemoryArgs(frame[t].mem_reqs).size,
                      alignment |-> MemoryArgs(frame[t].mem_reqs).alignment,
                      memoryTypeBits |->
                          MemoryArgs(frame[t].mem_reqs).memoryTypeBits,
                      chunk |-> chunk])]
    /\ frame' = [frame EXCEPT ![t].chunk = chunk]
    /\ IF AfterMemory(chunk) = "panic"
       THEN /\ pc' = [pc EXCEPT ![t] = "done"]
            /\ result' = [result EXCEPT ![t] = Panic("new")]
       ELSE /\ pc' = [pc EXCEPT ![t] = "BindImageMemory"]
            /\ UNCHANGED result
    /\ UNCHANGED <<objects, device, ncalls, conv, arcs>>

\* try!(check_errors(vk.BindImageMemory(..))): the calls made between the
\* failed bind and the return of the error.
OnBindError(image) == <<>>

\* vk.BindImageMemory: the device answers r.
NewBindImageMemory(t, r) ==
    /\ pc[t] = "BindImageMemory"
    /\ LET image == frame[t].image
           chunk == frame[t].chunk
           bindCall == [call |-> "BindImageMemory", image |-> image,
                        memory |-> IF chunk.kind = "Regular"
                                   THEN chunk.memory ELSE "garbage",
                        offset |-> IF chunk.kind = "Regular"
                                   THEN chunk.offset ELSE 0,
                        result |-> r]
           cleanup == IF check_errors(r) = "Ok" THEN <<>> ELSE OnBindError(image)
           destroyed == {cleanup[i].image : i \in DOMAIN cleanup}
       IN  /\ trace' = [trace EXCEPT ![t] = Append(@, bindCall) \o cleanup]
           /\ device' =
                  [device EXCEPT
                      !.bound = IF r = "SUCCESS" THEN @ \cup {image} ELSE @,
                      !.alive = @ \ destroyed,
                      !.destroyCalls =
                          [h \in DOMAIN @ |->
                              IF h \in destroyed THEN @[h] + 1 ELSE @[h]],
                      !.destroyedBy = @ \cup {<<h, 0>> : h \in destroyed}]
           /\ frame' = [frame EXCEPT ![t].bind_result = r]
           /\ IF check_errors(r) = "Ok"
              THEN /\ pc' = [pc EXCEPT ![t] = "return Ok"]
                   /\ UNCHANGED result
              ELSE /\ pc' = [pc EXCEPT ![t] = "done"]
                   /\ result' = [result EXCEPT ![t] = Err("new")]
    /\ UNCHANGED <<objects, ncalls, conv, arcs>>

\* An UnsafeImage that records the handle the device created last, not the
\* one this call created.
UnsafeImage_LastCreated(t) ==
    [image |-> Len(device.destroyCalls),
     usage |-> frame[t].usage,
     format |-> frame[t].args.format,
     dimensions |-> frame[t].shape.dims,
     samples |-> frame[t].args.num_samples,
     mipmaps |-> frame[t].mipmaps,
     needs_destruction |-> TRUE,
     owner |-> t,
     state |-> "alive"]

\* UnsafeImage { .. }: the fields of the value new builds (owner and state
\* say where the value is and whether it has been dropped).
UnsafeImage(t) ==
    [image |-> frame[t].image,
     usage |-> frame[t].usage,
     format |-> frame[t].args.format,
     dimensions |-> frame[t].shape.dims,
     samples |-> frame[t].args.num_samples,
     mipmaps |-> frame[t].mipmaps,
     needs_destruction |-> TRUE,
     owner |-> t,
     state |-> "alive"]

\* A device field that takes no reference of its own.
DeviceClone_None(strong) == strong

\* device.clone(): one more strong reference to the Device.
DeviceClone(strong) == strong + 1

\* Ok(UnsafeImage { .. }): the value handed to the caller.
NewReturn(t) ==
    /\ pc[t] = "return Ok"
    /\ objects' = Append(objects, UnsafeImage(t))
    /\ device' = [device EXCEPT !.strong = DeviceClone(@)]
    /\ result' = [result EXCEPT ![t] = Ok("new", Len(objects) + 1)]
    /\ pc' = [pc EXCEPT ![t] = "done"]
    /\ UNCHANGED <<frame, trace, ncalls, conv, arcs>>

\* The caller has taken the outcome of the finished call.
Finish(t) ==
    /\ pc[t] = "done"
    /\ pc' = [pc EXCEPT ![t] = "idle"]
    /\ frame' = [frame EXCEPT ![t] = EmptyFrame]
    /\ result' = [result EXCEPT ![t] = NoResult]
    /\ trace' = [trace EXCEPT ![t] = <<>>]
    /\ UNCHANGED <<objects, device, ncalls, conv, arcs>>

(***************************************************************************)
(* UnsafeImage::from_raw_unowned.                                          *)
(***************************************************************************)
\* The body of from_raw_unowned: what the call produces.
from_raw_unowned(t, handle, usage, dimensions, samples, mipmaps) ==
    Panic("from_raw_unowned")

FromRawUnowned(t, handle) ==
    /\ pc[t] = "idle"
    /\ t \in arcs
    /\ ncalls < MaxCalls
    /\ frame' = [frame EXCEPT ![t] =
           [EmptyFrame EXCEPT !.fn = "from_raw_unowned",
                              !.args = [fn |-> "from_raw_unowned",
                                        handle |-> handle]]]
    /\ result' = [result EXCEPT ![t] =
           from_raw_unowned(t, handle, {}, Dim1d(1), 1, 1)]
    /\ pc' = [pc EXCEPT ![t] = "done"]
    /\ trace' = [trace EXCEPT ![t] = <<>>]
    /\ ncalls' = ncalls + 1
    /\ UNCHANGED <<objects, device, conv, arcs>>

(***************************************************************************)
(* Moves and Drop for UnsafeImage.                                         *)
(***************************************************************************)
\* A value is in the hands of a thread that is not inside a constructor call.
Held(o) ==
    /\ o \in DOMAIN objects
    /\ objects[o].state = "alive"
    /\ pc[objects[o].owner] \in {"idle", "done"}

\* The value is moved to another thread; nothing of it changes.
Move(o, t) ==
    /\ Held(o)
    /\ objects[o].owner # t
    /\ objects' = [objects EXCEPT ![o].owner = t]
    /\ UNCHANGED <<pc, frame, result, trace, device, ncalls, conv, arcs>>

\* A drop that returns early whatever the flag says.
DropDestroys_Never(self) == FALSE

\* `if !self.needs_destruction { return; }`: whether drop goes on to the
\* DestroyImage call.
DropDestroys(self) == self.needs_destruction

\* One strong reference to the Device goes away; the last one frees it.
ArcDrop(d) ==
    [d EXCEPT !.strong = @ - 1, !.freed = @ \/ d.strong - 1 <= 0]

\* The value's scope ends: drop runs, once, and then the fields are
\* dropped, the Arc<Device> among them.
Drop(o) ==
    /\ Held(o)
    /\ objects' = [objects EXCEPT ![o].state = "dropped"]
    /\ device' =
           IF DropDestroys(objects[o])
           THEN ArcDrop([device EXCEPT
                    !.alive = @ \ {objects[o].image},
                    !.destroyCalls[objects[o].image] = @ + 1,
                    !.destroyedBy = @ \cup {<<objects[o].image, o>>},
                    !.usedFreed = @ \/ device.freed])
           ELSE ArcDrop(device)
    /\ UNCHANGED <<pc, frame, result, trace, ncalls, conv, arcs>>

\* A thread lets go of its own Arc<Device>; it cannot while a call of its
\* own borrows it.
ReleaseDevice(t) ==
    /\ t \in arcs
    /\ pc[t] \in {"idle", "done"}
    /\ arcs' = arcs \ {t}
    /\ device' = ArcDrop(device)
    /\ UNCHANGED <<pc, frame, result, trace, objects, ncalls, conv>>

(***************************************************************************)
(* Inputs.                                                                 *)
(***************************************************************************)
UsageSampledDest == [UsageNone EXCEPT !.transfer_dest = TRUE, !.sampled = TRUE]

Exclusive(id) == [kind |-> "Exclusive", id |-> id]

Concurrent(ids) == [kind |-> "Concurrent", ids |-> ids]

ArgsOf(usages, dimensions, samples, mipmaps, sharings, flags) ==
    [usage : usages, dimensions : dimensions, num_samples : samples,
     mipmaps : mipmaps, format : {"R8G8B8A8Unorm"}, sharing : sharings,
     linear_tiling : flags, preinitialized_layout : flags]

\* A few calls, right and wrong, and a few answers of the device and of the
\* callback, for the runs with several threads.
SmallArgs ==
    ArgsOf({UsageSampledDest}, {Dim2d(64, 32)}, {1}, {MipMax, Specific(7)},
           {Exclusive(0)}, {FALSE})

SmallVkResults == {"SUCCESS", "ERROR_OUT_OF_DEVICE_MEMORY"}

SmallMemoryRequirements == {reqs \in MemoryRequirements : reqs.size = 16}

SmallChunkOutcomes ==
    {chunk \in ChunkOutcomes : chunk.kind = "Regular" => chunk.offset = 32}

SpecialExtents == {32, 64, 256, 16777217, 2147483647}

Extents == (0 .. MaxExtent) \cup SpecialExtents

Layers == 0 .. MaxLayers

WideDimensions ==
    {Dim1d(w) : w \in Extents}
    \cup {Dim1dArray(w, l) : w \in Extents, l \in Layers}
    \cup {Dim2d(w, h) : w \in Extents, h \in Extents}
    \cup {Dim2dArray(w, h, l) : w \in Extents, h \in Extents, l \in Layers}
    \cup {Dim3d(w, h, d) : w \in Extents, h \in Extents, d \in Extents}

WideMipmaps ==
    {MipOne, MipMax}
    \cup {Specific(n) : n \in (0 .. MaxSpecific) \cup {9, 10, 31, 32}}

\* Every shape of call, for the runs of a single call.
WideArgs ==
    ArgsOf({UsageSampledDest}, WideDimensions, 0 .. MaxSamples,
           WideMipmaps, {Concurrent(<<0, 1>>)}, {TRUE})

ExternalHandles == {1001}

(***************************************************************************)
(* Specifications of the image life cycle.                                 *)
(***************************************************************************)
Init ==
    /\ InitImages
    /\ conv = ConvIdle

\* Several threads construct, move and drop images on one device.
Next ==
    \/ \E t \in Threads : \E args \in SmallArgs : NewBegin(t, args)
    \/ \E t \in Threads : \E r \in SmallVkResults : NewCreateImage(t, r)
    \/ \E t \in Threads : \E reqs \in SmallMemoryRequirements :
           NewGetImageMemoryRequirements(t, reqs)
    \/ \E t \in Threads : \E chunk \in SmallChunkOutcomes : NewMemory(t, chunk)
    \/ \E t \in Threads : \E r \in SmallVkResults : NewBindImageMemory(t, r)
    \/ \E t \in Threads : NewReturn(t)
    \/ \E t \in Threads : Finish(t)
    \/ \E t \in Threads : \E h \in ExternalHandles : FromRawUnowned(t, h)
    \/ \E o \in DOMAIN objects : \E t \in Threads : Move(o, t)
    \/ \E o \in DOMAIN objects : Drop(o)

Spec == Init /\ [][Next]_vars

\* One call of new by one thread, over every shape of argument, and the
\* drop of what it returned.
NextNew ==
    \/ ncalls = 0 /\ \E args \in WideArgs : NewBegin(1, args)
    \/ \E r \in VkResults : NewCreateImage(1, r)
    \/ \E reqs \in MemoryRequirements : NewGetImageMemoryRequirements(1, reqs)
    \/ \E chunk \in ChunkOutcomes : NewMemory(1, chunk)
    \/ \E r \in VkResults : NewBindImageMemory(1, r)
    \/ NewReturn(1)
    \/ \E o \in DOMAIN objects : Drop(o)

SpecNew == Init /\ [][NextNew]_vars

\* Several threads construct (with success), move and drop images while they
\* let go of their own references to the device, in any order.
NextArc ==
    \/ \E t \in Threads : \E args \in SmallArgs :
           args.mipmaps = MipMax /\ NewBegin(t, args)
    \/ \E t \in Threads : NewCreateImage(t, "SUCCESS")
    \/ \E t \in Threads : \E reqs \in SmallMemoryRequirements :
           NewGetImageMemoryRequirements(t, reqs)
    \/ \E t \in Threads : \E chunk \in SmallChunkOutcomes :
           chunk.kind = "Regular" /\ NewMemory(t, chunk)
    \/ \E t \in Threads : NewBindImageMemory(t, "SUCCESS")
    \/ \E t \in Threads : NewReturn(t)
    \/ \E t \in Threads : Finish(t)
    \/ \E o \in DOMAIN objects : \E t \in Threads : Move(o, t)
    \/ \E o \in DOMAIN objects : Drop(o)
    \/ \E t \in Threads : ReleaseDevice(t)

SpecArc == Init /\ [][NextArc]_vars

(***************************************************************************)
(* Usage conversions on their own: a caller converts a Usage to its        *)
(* bitmask and back, or a bitmask to a Usage and back.                     *)
(***************************************************************************)
\* 32-bit words: every setting of the low bits, under a few settings of the
\* bits above them.
HighParts ==
    {{}, {U32Bits - 1}, {16, U32Bits - 1}, (MaxLowBits + 1) .. (U32Bits - 1)}

Words == {lo \cup hi : lo \in SUBSET (0 .. MaxLowBits), hi \in HighParts}

InitUsage ==
    /\ InitImages
    /\ conv \in
           {[step |-> "input", src |-> "usage", u0 |-> u, w0 |-> {},
             u1 |-> UsageNone, w1 |-> {}] : u \in Usage}
           \cup
           {[step |-> "input", src |-> "bits", u0 |-> UsageNone, w0 |-> w,
             u1 |-> UsageNone, w1 |-> {}] : w \in Words}

\* A call of Usage::to_usage_bits, on the input or on the decoded Usage.
ConvToUsageBits ==
    /\ \/ /\ conv.step = "input"
          /\ conv.src = "usage"
          /\ conv' = [conv EXCEPT !.w1 = to_usage_bits(conv.u0),
                                  !.step = "encoded"]
       \/ /\ conv.step = "decoded"
          /\ conv.src = "bits"
          /\ conv' = [conv EXCEPT !.w1 = to_usage_bits(conv.u1),
                                  !.step = "done"]
    /\ UNCHANGED imgVars

\* A call of Usage::from_bits, on the input or on the encoded bitmask.
ConvFromBits ==
    /\ \/ /\ conv.step = "input"
          /\ conv.src = "bits"
          /\ conv' = [conv EXCEPT !.u1 = from_bits(conv.w0),
                                  !.step = "decoded"]
       \/ /\ conv.step = "encoded"
          /\ conv.src = "usage"
          /\ conv' = [conv EXCEPT !.u1 = from_bits(conv.w1),
                                  !.step = "done"]
    /\ UNCHANGED imgVars

NextUsage == ConvToUsageBits \/ ConvFromBits

SpecUsage == InitUsage /\ [][NextUsage]_vars

(***************************************************************************)
(* Properties.                                                             *)
(***************************************************************************)
\* The calls of one kind in a call's trace.
CallsOf(tr, name) == {i \in DOMAIN tr : tr[i].call = name}

\* The values returned for a handle.
ObjectsOf(image) == {o \in DOMAIN objects : objects[o].image = image}

\* Thread t's call of new got a handle from CreateImage and then saw
\* BindImageMemory fail.
BindFailed(t) ==
    /\ frame[t].fn = "new"
    /\ frame[t].create_result = "SUCCESS"
    /\ frame[t].bind_result \notin {"none", "SUCCESS"}

\* C1: when CreateImage succeeded and BindImageMemory fails, the handle is
\* released by one DestroyImage call before the error is returned, no
\* UnsafeImage is returned, and no created-and-undestroyed handle remains.
C1_BindFailureReleasesHandle ==
    \A t \in Threads :
        (BindFailed(t) /\ pc[t] = "done") =>
            /\ result[t] = Err("new")
            /\ ObjectsOf(frame[t].image) = {}
            /\ device.destroyCalls[frame[t].image] = 1
            /\ frame[t].image \notin device.alive

\* C2: an UnsafeImage returned by new sees no DestroyImage call on its
\* handle while it is alive, and exactly one once it has been dropped,
\* whatever moves came first and whatever happens afterwards.
C2_OwnedDestroyedOnceAtDrop ==
    \A o \in DOMAIN objects :
        objects[o].needs_destruction =>
            /\ objects[o].state = "alive" =>
                   /\ device.destroyCalls[objects[o].image] = 0
                   /\ objects[o].image \in device.alive
            /\ objects[o].state = "dropped" =>
                   /\ device.destroyCalls[objects[o].image] = 1
                   /\ objects[o].image \notin device.alive

\* An image returned by new to one thread was moved to another and dropped
\* there.
C2_Witness ==
    \E t \in Threads :
        /\ result[t].kind = "Ok"
        /\ objects[result[t].object].owner # t
        /\ objects[result[t].object].state = "dropped"
        /\ objects[result[t].object].needs_destruction

\* C3: from_raw_unowned returns a resource object whose needs_destruction
\* is false (and whose drop then issues no DestroyImage).
C3_FromRawUnownedReturnsUnowned ==
    \A t \in Threads :
        (frame[t].fn = "from_raw_unowned" /\ pc[t] = "done") =>
            /\ result[t].kind = "Ok"
            /\ ~objects[result[t].object].needs_destruction

\* C4: when CreateImage fails, new returns the out-of-memory error, holds
\* no handle, and CreateImage is the only call it ever makes: no
\* GetImageMemoryRequirements, no callback, no BindImageMemory, no
\* DestroyImage.
C4_CreateFailureLeavesNothing ==
    \A t \in Threads :
        (frame[t].fn = "new" /\ frame[t].create_result \notin {"none", "SUCCESS"}) =>
            /\ pc[t] = "done"
            /\ result[t] = Err("new")
            /\ frame[t].image = 0
            /\ Len(trace[t]) = 1
            /\ trace[t][1].call = "CreateImage"
            /\ trace[t][1].image = 0

C4_Witness ==
    \E t \in Threads :
        /\ frame[t].fn = "new"
        /\ frame[t].create_result = "ERROR_OUT_OF_DEVICE_MEMORY"
        /\ pc[t] = "done"

\* C5: when the callback returns a chunk that is not Regular, new panics,
\* BindImageMemory is never called for that construction and no UnsafeImage
\* is produced.
C5_NonRegularChunkAborts ==
    \A t \in Threads :
        (frame[t].fn = "new" /\ frame[t].chunk.kind \notin {"none", "Regular", "CallbackPanic"}) =>
            /\ pc[t] = "done"
            /\ result[t] = Panic("new")
            /\ CallsOf(trace[t], "BindImageMemory") = {}
            /\ ObjectsOf(frame[t].image) = {}

C5_Witness ==
    \E t \in Threads :
        /\ frame[t].fn = "new"
        /\ frame[t].chunk.kind = "Other"
        /\ pc[t] = "done"
        /\ CallsOf(trace[t], "memory") # {}

\* The extents a dimensionality description carries.
ExtentsOf(dimensions) ==
    CASE dimensions.kind \in {"Dim1d", "Dim1dArray"} -> {dimensions.width}
      [] dimensions.kind \in {"Dim2d", "Dim2dArray"} ->
            {dimensions.width, dimensions.height}
      [] dimensions.kind = "Dim3d" ->
            {dimensions.width, dimensions.height, dimensions.depth}

\* The caller errors: an extent of 0, no samples, or a Specific(n) with
\* n = 0 or n above the maximum mip count.
CallerError(args) ==
    \/ 0 \in ExtentsOf(args.dimensions)
    \/ args.num_samples = 0
    \/ /\ args.mipmaps.kind = "Specific"
       /\ \/ args.mipmaps.num = 0
          \/ /\ 0 \notin ExtentsOf(args.dimensions)
             /\ args.mipmaps.num > max_mipmaps(args.dimensions)

\* C6: a call of new with a caller error panics, and it does so before any
\* device call and before the allocation callback.
C6_CallerErrorsPanicFirst ==
    \A t \in Threads :
        (frame[t].fn = "new" /\ CallerError(frame[t].args)) =>
            /\ pc[t] = "done"
            /\ result[t] = Panic("new")
            /\ trace[t] = <<>>
            /\ device.created = {}

\* A Specific(n) above the maximum, with everything else in order, panicked.
C6_Witness ==
    \E t \in Threads :
        /\ frame[t].fn = "new"
        /\ frame[t].args.num_samples >= 1
        /\ 0 \notin ExtentsOf(frame[t].args.dimensions)
        /\ frame[t].args.mipmaps.kind = "Specific"
        /\ frame[t].args.mipmaps.num > frame[t].max_mipmaps
        /\ frame[t].max_mipmaps >= 1
        /\ result[t] = Panic("new")

\* C7: from_bits(to_usage_bits(U)) has the eight flag values of U.
C7_UsageRoundTrip ==
    (conv.step = "done" /\ conv.src = "usage") => conv.u1 = conv.u0

C7_Witness ==
    /\ conv.step = "done"
    /\ conv.src = "usage"
    /\ conv.u0 = UsageSampledDest
    /\ conv.u1.sampled

\* The bit each flag of Usage is paired with.
FlagBit ==
    [transfer_source |-> IMAGE_USAGE_TRANSFER_SRC_BIT,
     transfer_dest |-> IMAGE_USAGE_TRANSFER_DST_BIT,
     sampled |-> IMAGE_USAGE_SAMPLED_BIT,
     storage |-> IMAGE_USAGE_STORAGE_BIT,
     color_attachment |-> IMAGE_USAGE_COLOR_ATTACHMENT_BIT,
     depth_stencil_attachment |-> IMAGE_USAGE_DEPTH_STENCIL_ATTACHMENT_BIT,
     transient_attachment |-> IMAGE_USAGE_TRANSIENT_ATTACHMENT_BIT,
     input_attachment |-> IMAGE_USAGE_INPUT_ATTACHMENT_BIT]

\* M: the OR of the eight defined usage bits.
DefinedBits == UNION {Word(FlagBit[f]) : f \in DOMAIN FlagBit}

\* C8: none() converts to 0, all() to exactly the eight defined bits, each
\* flag shows in its own bit, and no other Usage has the same bitmask.
C8_BitmaskOfNoneAllAndInjective ==
    (conv.src = "usage" /\ conv.step \in {"encoded", "done"}) =>
        /\ conv.u0 = UsageNone => conv.w1 = {}
        /\ conv.u0 = UsageAll =>
               (conv.w1 = DefinedBits /\ Cardinality(conv.w1) = 8)
        /\ \A f \in DOMAIN FlagBit :
               /\ Cardinality(Word(FlagBit[f])) = 1
               /\ conv.u0[f] <=> (Word(FlagBit[f]) \subseteq conv.w1)
        /\ \A u \in Usage : u # conv.u0 => to_usage_bits(u) # conv.w1

C8_Witness ==
    /\ conv.src = "usage"
    /\ conv.step = "encoded"
    /\ conv.u0 = UsageAll
    /\ Cardinality(conv.w1) = 8

\* C9: from_bits never fails and ignores the bits outside the eight defined
\* ones: from_bits(v) = from_bits(v AND M), and
\* from_bits(v).to_usage_bits() = v AND M.
C9_FromBitsIgnoresOtherBits ==
    conv.src = "bits" =>
        /\ conv.step = "input" => ENABLED ConvFromBits
        /\ conv.step \in {"decoded", "done"} =>
               conv.u1 = from_bits(conv.w0 \cap DefinedBits)
        /\ conv.step = "done" => conv.w1 = conv.w0 \cap DefinedBits

\* A word with bit 31 and other undefined bits set was decoded and encoded
\* again.
C9_Witness ==
    /\ conv.src = "bits"
    /\ conv.step = "done"
    /\ (U32Bits - 1) \in conv.w0
    /\ conv.w1 # conv.w0
    /\ conv.w1 # {}

\* The true minimum of a set of extents.
MinOf(S) == CHOOSE m \in S : \A x \in S : m <= x

\* floor(log2(s)) for 1 <= s < 2^31.
FloorLog2(s) == CHOOSE k \in 0 .. 30 : 2 ^ k <= s /\ (k = 30 \/ s < 2 ^ (k + 1))

\* C10: with all extents >= 1, the maximum mip count that new computes is
\* floor(log2(s)) + 1 for s the true minimum of the relevant extents; s = 1
\* gives 1, s = 256 gives 9, and 2D 64x32 gives 6.
C10_MaxMipmapsIsFloorLog2Plus1 ==
    \A t \in Threads :
        (/\ frame[t].fn = "new"
         /\ frame[t].args.num_samples >= 1
         /\ \A x \in ExtentsOf(frame[t].args.dimensions) : x >= 1) =>
            LET s == MinOf(ExtentsOf(frame[t].args.dimensions))
            IN  /\ frame[t].max_mipmaps = FloorLog2(s) + 1
                /\ s = 1 => frame[t].max_mipmaps = 1
                /\ s = 256 => frame[t].max_mipmaps = 9
                /\ frame[t].args.dimensions = Dim2d(64, 32) =>
                       frame[t].max_mipmaps = 6

\* A 3D image whose depth is the strictly smallest extent and whose width
\* is below its height.
C10_Witness ==
    \E t \in Threads :
        /\ frame[t].fn = "new"
        /\ frame[t].args.dimensions.kind = "Dim3d"
        /\ frame[t].args.dimensions.depth = 64
        /\ frame[t].args.dimensions.width = 256
        /\ frame[t].args.dimensions.height = 16777217
        /\ frame[t].max_mipmaps = 7

\* Thread t's call of new ended in a panic before any device call.
PanickedEarly(t) ==
    pc[t] = "done" /\ result[t] = Panic("new") /\ trace[t] = <<>>

\* Thread t's call of new got past its assertions.
ReachedDevice(t) == pc[t] = "CreateImage" \/ trace[t] # <<>>

\* C11: One resolves to 1, Max to the computed maximum, Specific(n) to n
\* when 1 <= n <= max and to a panic otherwise; a resolved count r has
\* 1 <= r <= max and is the mipLevels of the create request.
C11_MipmapsResolution ==
    \A t \in Threads :
        (/\ frame[t].fn = "new"
         /\ frame[t].args.num_samples >= 1
         /\ 0 \notin ExtentsOf(frame[t].args.dimensions)) =>
            LET req == frame[t].args.mipmaps
                max == frame[t].max_mipmaps
                r == frame[t].mipmaps
            IN  /\ req.kind = "One" => (ReachedDevice(t) /\ r = 1)
                /\ req.kind = "Max" => (ReachedDevice(t) /\ r = max)
                /\ req.kind = "Specific" =>
                       IF 1 <= req.num /\ req.num <= max
                       THEN ReachedDevice(t) /\ r = req.num
                       ELSE PanickedEarly(t)
                /\ ReachedDevice(t) => (1 <= r /\ r <= max)
                /\ \A i \in CallsOf(trace[t], "CreateImage") :
                       trace[t][i].infos.mipLevels = r

\* Specific(9) on a smallest extent of 256 went to the device as 9 levels.
C11_Witness ==
    \E t \in Threads :
        /\ frame[t].fn = "new"
        /\ frame[t].args.mipmaps = Specific(9)
        /\ frame[t].max_mipmaps = 9
        /\ trace[t] # <<>>
        /\ trace[t][1].infos.mipLevels = 9

\* C12: a successful call of new makes exactly CreateImage,
\* GetImageMemoryRequirements on the created handle, the callback with the
\* size, alignment and type bits just queried, and BindImageMemory on the
\* same handle with the memory and offset the callback returned, in this
\* order, and no DestroyImage before the resource is returned.
C12_SuccessfulCallSequence ==
    \A t \in Threads :
        (frame[t].fn = "new" /\ (pc[t] = "return Ok" \/ result[t].kind = "Ok")) =>
            LET tr == trace[t]
            IN  /\ Len(tr) = 4
                /\ tr[1].call = "CreateImage"
                /\ tr[1].result = "SUCCESS"
                /\ tr[2].call = "GetImageMemoryRequirements"
                /\ tr[2].image = tr[1].image
                /\ tr[3].call = "memory"
                /\ tr[3].size = tr[2].reqs.size
                /\ tr[3].alignment = tr[2].reqs.alignment
                /\ tr[3].memoryTypeBits = tr[2].reqs.memoryTypeBits
                /\ tr[3].chunk.kind = "Regular"
                /\ tr[4].call = "BindImageMemory"
                /\ tr[4].image = tr[1].image
                /\ tr[4].memory = tr[3].chunk.memory
                /\ tr[4].offset = tr[3].chunk.offset
                /\ (pc[t] = "return Ok"
                    \/ objects[result[t].object].state = "alive") =>
                       device.destroyCalls[tr[1].image] = 0

C12_Witness ==
    \E t \in Threads :
        /\ result[t].kind = "Ok"
        /\ Len(trace[t]) = 4
        /\ trace[t][2].reqs.size = 64
        /\ trace[t][3].alignment = 16
        /\ trace[t][4].offset = 32

\* The image type, extent and layer count each variant stands for.
ExpectedType(dimensions) ==
    CASE dimensions.kind \in {"Dim1d", "Dim1dArray"} -> "IMAGE_TYPE_1D"
      [] dimensions.kind \in {"Dim2d", "Dim2dArray"} -> "IMAGE_TYPE_2D"
      [] dimensions.kind = "Dim3d" -> "IMAGE_TYPE_3D"

ExpectedExtent(dimensions) ==
    CASE dimensions.kind \in {"Dim1d", "Dim1dArray"} ->
            <<dimensions.width, 1, 1>>
      [] dimensions.kind \in {"Dim2d", "Dim2dArray"} ->
            <<dimensions.width, dimensions.height, 1>>
      [] dimensions.kind = "Dim3d" ->
            <<dimensions.width, dimensions.height, dimensions.depth>>

ExpectedLayers(dimensions) ==
    IF dimensions.kind \in {"Dim1dArray", "Dim2dArray"}
    THEN dimensions.array_layers ELSE 1

ExtentTuple(extent) == <<extent.width, extent.height, extent.depth>>

\* C13: the create request has type 1D / 2D / 3D by the variant's
\* dimensionality, extent (w,1,1), (w,h,1) or (w,h,d), and array layer count
\* array_layers for the array variants and 1 for the others.
C13_CreateRequestShape ==
    \A t \in Threads :
        \A i \in CallsOf(trace[t], "CreateImage") :
            LET infos == trace[t][i].infos
                dimensions == frame[t].args.dimensions
            IN  /\ infos.imageType = ExpectedType(dimensions)
                /\ ExtentTuple(infos.extent) = ExpectedExtent(dimensions)
                /\ infos.arrayLayers = ExpectedLayers(dimensions)

\* A 2D array image of two layers went to the device.
C13_Witness ==
    \E t \in Threads :
        /\ trace[t] # <<>>
        /\ frame[t].args.dimensions = Dim2dArray(64, 32, 2)
        /\ trace[t][1].infos.arrayLayers = 2
        /\ trace[t][1].infos.imageType = "IMAGE_TYPE_2D"

\* The f32 v holds exactly the integer x.
F32Equals(v, x) == x % (2 ^ v.e) = 0 /\ x \div (2 ^ v.e) = v.m

\* The f32 v is x rounded: within half a unit of v's last place of x, and x
\* itself when x needs no more than 24 bits.
F32Rounds(v, x) ==
    LET unit == 2 ^ v.e
        q == x \div unit
        r == x % unit
    IN  /\ v.m <= 2 ^ F32MantissaBits
        /\ x < 2 ^ F32MantissaBits => v.e = 0
        /\ \/ v.m = q /\ 2 * r <= unit
           \/ v.m = q + 1 /\ 2 * r >= unit

\* What an UnsafeImage returned by new records, but for its dimensions.
RecordsCall(t) ==
    LET o == objects[result[t].object]
        tr == trace[t]
    IN  /\ o.image = tr[1].image
        /\ o.image = tr[4].image
        /\ tr[4].call = "BindImageMemory"
        /\ o.usage = to_usage_bits(frame[t].args.usage)
        /\ o.usage = tr[1].infos.usage
        /\ o.mipmaps = frame[t].mipmaps
        /\ o.mipmaps = tr[1].infos.mipLevels
        /\ o.samples = frame[t].args.num_samples
        /\ o.samples = tr[1].infos.samples
        /\ o.needs_destruction

\* C14: the returned UnsafeImage records the created and bound
\* handle, the usage bits, the resolved mip count, the sample count, a
\* dimension vector equal to the extent of the create request, and
\* needs_destruction = true.
C14_RecordsExactExtent ==
    \A t \in Threads :
        (frame[t].fn = "new" /\ result[t].kind = "Ok") =>
            /\ RecordsCall(t)
            /\ \A k \in 1 .. 3 :
                   F32Equals(objects[result[t].object].dimensions[k],
                             ExtentTuple(trace[t][1].infos.extent)[k])

\* What new records instead: a dimension vector that holds each extent
\* component converted to f32, that is rounded to 24 significant bits, and
\* so equal to it whenever the component is at most 2^24.
C14_RecordsRoundedExtent ==
    \A t \in Threads :
        (frame[t].fn = "new" /\ result[t].kind = "Ok") =>
            /\ RecordsCall(t)
            /\ Len(objects[result[t].object].dimensions) = 3
            /\ \A k \in 1 .. 3 :
                   LET v == objects[result[t].object].dimensions[k]
                       x == ExtentTuple(trace[t][1].infos.extent)[k]
                   IN  /\ F32Rounds(v, x)
                       /\ x <= 2 ^ F32MantissaBits => F32Equals(v, x)

\* C15: every CreateImage request is well-formed: extent components >= 1,
\* samples >= 1, mipLevels between 1 and the maximum, arrayLayers >= 1.
C15_CreateRequestWellFormed ==
    \A t \in Threads :
        \A i \in CallsOf(trace[t], "CreateImage") :
            LET infos == trace[t][i].infos
            IN  /\ infos.extent.width >= 1
                /\ infos.extent.height >= 1
                /\ infos.extent.depth >= 1
                /\ infos.samples >= 1
                /\ 1 <= infos.mipLevels
                /\ infos.mipLevels <= frame[t].max_mipmaps
                /\ infos.arrayLayers >= 1

\* The handles thread t's call of new got from CreateImage.
CreatedBy(t) ==
    {trace[t][i].image :
        i \in {j \in CallsOf(trace[t], "CreateImage") :
                  trace[t][j].result = "SUCCESS"}}

\* C16: when a call of new has ended, by a return or by an abort, the
\* handles it created and did not destroy are as many as the resources it
\* returned: 1 on success, 0 otherwise.
C16_NoHandleLeakOnExit ==
    \A t \in Threads :
        (frame[t].fn = "new" /\ pc[t] = "done") =>
            Cardinality(CreatedBy(t) \cap device.alive)
                = Cardinality({o \in DOMAIN objects :
                                  /\ objects[o].image \in CreatedBy(t)
                                  /\ objects[o].state = "alive"})

\* C17: every DestroyImage call is on a handle CreateImage returned, comes
\* from the drop of the resource that owns that handle, and no handle is
\* destroyed twice or by another resource.
C17_DestroyOnlyByOwnerOnce ==
    /\ \A p \in device.destroyedBy :
           /\ p[1] \in device.created
           /\ p[2] \in DOMAIN objects
           /\ objects[p[2]].image = p[1]
           /\ objects[p[2]].state = "dropped"
    /\ \A h \in DOMAIN device.destroyCalls :
           /\ device.destroyCalls[h] <= 1
           /\ device.destroyCalls[h]
                  = Cardinality({p \in device.destroyedBy : p[1] = h})
    /\ \A o1, o2 \in DOMAIN objects :
           o1 # o2 => objects[o1].image # objects[o2].image

\* Two resources built by different threads have both been destroyed.
C17_Witness ==
    /\ Cardinality(device.destroyedBy) = 2
    /\ Len(objects) = 2
    /\ objects[1].image # objects[2].image
    /\ \E t \in Threads :
           /\ result[t].kind = "Ok"
           /\ result[t].object = 2
           /\ pc[objects[1].owner] # "idle"
           /\ objects[1].owner # t

\* C18: the device is alive at every DestroyImage call, and it stays alive
\* (its reference count stays above zero) while any resource created from
\* it exists, whatever the callers do with their own references.
C18_DeviceOutlivesResources ==
    /\ ~device.usedFreed
    /\ (\E o \in DOMAIN objects : objects[o].state = "alive") =>
           (~device.freed /\ device.strong >= 1)

\* Every caller has let go of the device and a resource still exists.
C18_Witness ==
    /\ arcs = {}
    /\ \E o \in DOMAIN objects : objects[o].state = "alive"
    /\ device.strong = 1

=============================================================================
